---- MODULE Spec2Model ----
(***************************************************************************)
(* Model of the WebSocket load tester's socket worker                       *)
(* (crates/ws_load_test/src/network.rs): the repeating connection opener    *)
(* (periodically_open_connections) and the per-connection task              *)
(* (Connection::run, run_connection_loop, send_message, read_message).      *)
(*                                                                          *)
(* Every worker owns one num_active_connections cell; all workers share     *)
(* the atomic statistics counters.  A connection task is identified by      *)
(* <<worker, slot>>; its position is pc[s]:                                 *)
(*   unspawned -> establishing -> fetch_add -> send <-> read                *)
(*                     |                         |       |                  *)
(*                returned_err                   fetch_sub -> returned_ok   *)
(* Spec explores the message exchange of a worker's connections,            *)
(* AdmissionSpec the admission of connections on several workers.           *)
(***************************************************************************)
EXTENDS Integers, FiniteSets, Sequences, TLC

\* ------------------------------------------------------------------ bounds
MaxCapacity == 2       \* largest config.num_connections_per_worker tried
MaxSessions == 1       \* Spec: connection tasks the worker may spawn in a run
MaxRequests == 3       \* Spec: cap on statistics.requests (successful writes)
NumWorkers == 2        \* AdmissionSpec: socket workers (one executor each)
MaxTasks == 2          \* AdmissionSpec: connection tasks worker 1 may spawn
MaxAdmissionRequests == 1  \* AdmissionSpec: cap on statistics.requests
IntervalMs == 1        \* the config.connection_creation_interval_ms of a run

\* --------------------------------------------------------- Option<T> values
None == <<>>
Some(v) == <<v>>

\* ------------------------------------------------- identifiers and messages
\* InfoHash, PeerId, OfferId are opaque; small distinct integers stand for them.
GenInfoHash == 10
PeerIdOf(s) == 100 + 10 * s[1] + s[2]

RtcAnswer == [t |-> "Answer", sdp |-> "abcdefg-"]

AnnounceRequest(s, ev, offers) ==
    [type |-> "AnnounceRequest", info_hash |-> GenInfoHash, peer_id |-> PeerIdOf(s),
     event |-> ev, offers |-> offers,
     answer |-> None, answer_to_peer_id |-> None, answer_offer_id |-> None]

ScrapeRequest ==
    [type |-> "ScrapeRequest", info_hashes |-> <<GenInfoHash>>]

\* The candidates utils::create_random_request may return for session s.  Its
\* sampling is random and how it uses the flag is its own business: either
\* value of the flag may bring back any candidate.  A candidate carries no
\* answer fields.
create_random_request(s, flag) ==
    { AnnounceRequest(s, Some("started"), Some("offers")),
      AnnounceRequest(s, None, None),
      ScrapeRequest }

\* Mutant: the peer and offer identifiers of the answer are swapped.
answer_request_swapped(r, offer) ==
    [r EXCEPT !.info_hash = offer[1],
              !.answer_to_peer_id = Some(offer[3]),
              !.answer_offer_id = Some(offer[2]),
              !.answer = Some(RtcAnswer),
              !.event = None,
              !.offers = None]

\* network.rs 141-149: turn announce request r into an answer to offer
answer_request(r, offer) ==
    [r EXCEPT !.info_hash = offer[1],
              !.answer_to_peer_id = Some(offer[2]),
              !.answer_offer_id = Some(offer[3]),
              !.answer = Some(RtcAnswer),
              !.event = None,
              !.offers = None]

\* network.rs 139-157: the request handed to stream.send
outgoing_request(request, csa) ==
    IF request.type = "AnnounceRequest"
    THEN IF csa # None THEN answer_request(request, csa[1]) ELSE request
    ELSE request

\* Mutant: the slot is cleared on every send, whatever the request.
can_send_answer_cleared_always(request, csa) == None

\* Mutant: the slot is never cleared by a send.
can_send_answer_never_cleared(request, csa) == csa

\* network.rs 139-157: can_send_answer after the request was built
can_send_answer_after_send(request, csa) ==
    IF request.type = "AnnounceRequest" THEN None ELSE csa

\* ---------------------------------------------------------------- frames
\* What stream.next() can yield: end of stream, a transport error, or a frame.
Bodies == {"offer1", "offer2", "answer", "announce", "scrape", "error", "garbage"}
Frames ==
    {[kind |-> "EndOfStream", body |-> "-"], [kind |-> "ReadError", body |-> "-"],
     [kind |-> "Ping", body |-> "-"], [kind |-> "Close", body |-> "-"]}
    \cup [kind : {"Text", "Binary"}, body : Bodies]

\* OutMessage::from_ws_message: the decoded message or a decode error.  The two
\* offers carry different (info_hash, peer_id, offer_id) triples.
from_ws_message(body) ==
    CASE body = "offer1" ->
            [ok |-> TRUE, type |-> "OfferOutMessage", offer |-> <<11, 1, 21>>]
      [] body = "offer2" ->
            [ok |-> TRUE, type |-> "OfferOutMessage", offer |-> <<12, 2, 22>>]
      [] body = "answer" ->
            [ok |-> TRUE, type |-> "AnswerOutMessage", offer |-> <<>>]
      [] body = "announce" ->
            [ok |-> TRUE, type |-> "AnnounceResponse", offer |-> <<>>]
      [] body = "scrape" ->
            [ok |-> TRUE, type |-> "ScrapeResponse", offer |-> <<>>]
      [] body = "error" ->
            [ok |-> TRUE, type |-> "ErrorResponse", offer |-> <<>>]
      [] OTHER ->
            [ok |-> FALSE, type |-> "Err", offer |-> <<>>]

\* ------------------------------------------------------------- statistics
CounterNames ==
    {"connections", "requests", "responses_offer", "responses_answer",
     "responses_announce", "responses_scrape", "responses_error"}

fetch_add(stats, name) == [stats EXCEPT ![name] = @ + 1]
fetch_sub(stats, name) == [stats EXCEPT ![name] = @ - 1]

\* Mutant: an error response is only logged, not counted.
response_counter_error_uncounted(msg) ==
    CASE msg.type = "OfferOutMessage" -> {"responses_offer"}
      [] msg.type = "AnswerOutMessage" -> {"responses_answer"}
      [] msg.type = "AnnounceResponse" -> {"responses_announce"}
      [] msg.type = "ScrapeResponse" -> {"responses_scrape"}
      [] OTHER -> {}

\* network.rs 189-227: the counters the match arm of a decode result increments
response_counter(msg) ==
    CASE msg.type = "OfferOutMessage" -> {"responses_offer"}
      [] msg.type = "AnswerOutMessage" -> {"responses_answer"}
      [] msg.type = "AnnounceResponse" -> {"responses_announce"}
      [] msg.type = "ScrapeResponse" -> {"responses_scrape"}
      [] msg.type = "ErrorResponse" -> {"responses_error"}
      [] OTHER -> {}

\* Mutant: a frame that is neither text nor binary ends the connection.
frame_outcome_other_fatal(frame) ==
    CASE frame.kind \in {"Text", "Binary"} -> "decode"
      [] OTHER -> "fatal"

\* network.rs 170-187: what the frame match does with the value of stream.next()
frame_outcome(frame) ==
    CASE frame.kind \in {"EndOfStream", "ReadError"} -> "fatal"
      [] frame.kind \in {"Text", "Binary"} -> "decode"
      [] OTHER -> "ignored"

\* statistics after read_message handled a frame
statistics_after_read(stats, frame) ==
    IF frame_outcome(frame) = "decode"
    THEN LET names == response_counter(from_ws_message(frame.body))
         IN  [n \in CounterNames |-> IF n \in names THEN stats[n] + 1 ELSE stats[n]]
    ELSE stats

\* Mutant: an offer that arrives while one is pending is dropped.
can_send_answer_after_read_keeps_first(csa, frame) ==
    IF /\ frame_outcome(frame) = "decode"
       /\ from_ws_message(frame.body).type = "OfferOutMessage"
       /\ csa = None
    THEN Some(from_ws_message(frame.body).offer)
    ELSE csa

\* network.rs 196: can_send_answer after read_message handled a frame
can_send_answer_after_read(csa, frame) ==
    IF frame_outcome(frame) = "decode"
       /\ from_ws_message(frame.body).type = "OfferOutMessage"
    THEN Some(from_ws_message(frame.body).offer)
    ELSE csa

\* ------------------------------------------------------------------ state
VARIABLES
    config,                  \* [num_connections_per_worker,
                             \*  connection_creation_interval_ms]; immutable
    num_active_connections,  \* per worker: Rc<RefCell<usize>>
    statistics,              \* shared atomic counters
    pc,                      \* per connection task <<worker, slot>>: where it is suspended
    can_send_answer,         \* per connection: Option<(InfoHash, PeerId, OfferId)>
    max_in_flight,           \* per worker: most establishment attempts in flight at once
    sent,                    \* per connection: its latest send_message call, as
                             \* Some([flag, request]): the flag given to the generator
                             \* and the request handed to stream.send; None before
    timer,                   \* per worker: the Option<Duration> the repeating timer
                             \* was last given, None once it is told to stop
    vacated                  \* per worker: since its last tick a connection ended
                             \* and left the count below the capacity

vars == <<config, num_active_connections, statistics, pc, can_send_answer,
          max_in_flight, sent, timer, vacated>>

Workers == DOMAIN num_active_connections
Sessions == DOMAIN pc

Establishing == {"establishing"}
Live == {"send", "read"}

TasksAt(w, pcs) == {s \in Sessions : s[1] = w /\ pc[s] \in pcs}
InFlight(w) == Cardinality(TasksAt(w, Establishing))
Launched(w) == Cardinality({s \in Sessions : s[1] = w /\ pc[s] # "unspawned"})

\* network.rs 108-109 and 115-116 have no await between them: while a task of
\* worker w is between its two counter updates the executor of w runs nothing
\* else (the other workers, on their own threads, do run)
MidUpdate == {"fetch_add", "fetch_sub"}
Runnable(w) == TasksAt(w, MidUpdate) = {}

\* the state after run_socket_thread started on every worker (network.rs 26-31)
InitWith(workers, sessions) ==
    /\ config \in [num_connections_per_worker : 1..MaxCapacity,
                   connection_creation_interval_ms : {IntervalMs}]
    /\ num_active_connections = [w \in workers |-> 0]
    /\ statistics = [n \in CounterNames |-> 0]
    /\ pc = [s \in sessions |-> "unspawned"]
    /\ can_send_answer = [s \in sessions |-> None]
    /\ max_in_flight = [w \in workers |-> 0]
    /\ sent = [s \in sessions |-> None]
    /\ timer = [w \in workers |-> Some(config.connection_creation_interval_ms)]
    /\ vacated = [w \in workers |-> FALSE]

\* one worker, whose connections exchange up to MaxRequests messages
Init == InitWith({1}, {1} \X (1..MaxSessions))

\* NumWorkers workers sharing the statistics: worker 1 may spawn MaxTasks
\* connection tasks, every further worker one
AdmissionInit ==
    InitWith(1..NumWorkers, ({1} \X (1..MaxTasks)) \cup ((2..NumWorkers) \X {1}))

\* ----------------------------------------------------- admission controller
\* Mutant: a tick opens every missing connection at once.
connections_to_open_burst(count, capacity) ==
    IF count < capacity THEN capacity - count ELSE 0

\* Mutant: the capacity test is off by one.
connections_to_open_le(count, capacity) ==
    IF count <= capacity THEN 1 ELSE 0

\* Mutant: a worker that lost a connection opens no further one.
connections_to_open_no_replacement(count, capacity) ==
    IF /\ count < capacity
       /\ \A s \in Sessions : pc[s] \notin {"fetch_sub", "returned_ok"}
    THEN 1 ELSE 0

\* network.rs 52-61: how many Connection::run tasks one tick spawns
connections_to_open(count, capacity) ==
    IF count < capacity THEN 1 ELSE 0

\* Mutant: the timer is not rearmed once the capacity is reached.
next_tick_stops_at_capacity(count, capacity, interval) ==
    IF count < capacity THEN Some(interval) ELSE None

\* network.rs 63: the value the repeated closure returns, the delay up to the
\* next tick
next_tick(count, capacity, interval) == Some(interval)

\* network.rs 39-42: join() completes once the timer has stopped, and
\* run_socket_thread then returns the "timer cancelled" error; it returns in
\* no other way
run_socket_thread_returned(w) == timer[w] = None

\* the k lowest unspawned task slots of worker w
FirstFree(w, k) ==
    LET free == TasksAt(w, {"unspawned"})
    IN  {s \in free : Cardinality({u \in free : u[2] < s[2]}) < k}

\* network.rs 45-64: one tick of the repeating timer of worker w.  A spawned
\* task runs up to its first await, TcpStream::connect.
periodically_open_connections(w) ==
    LET count == num_active_connections[w]
        k == connections_to_open(count, config.num_connections_per_worker)
        new == FirstFree(w, k)
    IN  /\ Runnable(w)
        /\ timer[w] # None
        /\ Cardinality(new) = k
        /\ pc' = [s \in Sessions |-> IF s \in new THEN "establishing" ELSE pc[s]]
        /\ max_in_flight' =
              [max_in_flight EXCEPT ![w] =
                  IF InFlight(w) + k > @ THEN InFlight(w) + k ELSE @]
        /\ timer' = [timer EXCEPT ![w] =
                        next_tick(count, config.num_connections_per_worker, @[1])]
        /\ vacated' = [vacated EXCEPT ![w] = FALSE]
        /\ UNCHANGED <<config, num_active_connections, statistics, can_send_answer, sent>>

\* ------------------------------------------------------- Connection::run
\* Mutant: a failed attempt runs the teardown decrement.
count_after_attempt_error_decremented(count) == count - 1

\* network.rs 84-95: `?` returns the error before line 108 is reached
count_after_attempt_error(count) == count

\* where an establishment attempt can end: an error of TcpStream::connect
\* (84-86), of TlsConnector::connect (87-89) or of client_async (95), or success
Outcomes == {"connect_err", "tls_err", "client_async_err", "ok"}

\* network.rs 82-108: the establishment, from the spawn to the first counter
\* update.  Its three awaits read and write nothing other tasks see, so they are
\* one step.  On an error `?` returns it and the task ends (the spawner logs
\* it, lines 54-58); on success the Connection is built with can_send_answer =
\* None and the worker's count is incremented.
establish_returns(s, outcome) ==
    /\ Runnable(s[1])
    /\ pc[s] = "establishing"
    /\ pc' = [pc EXCEPT ![s] = IF outcome = "ok" THEN "fetch_add" ELSE "returned_err"]
    /\ num_active_connections' =
          [num_active_connections EXCEPT ![s[1]] =
              IF outcome = "ok" THEN @ + 1 ELSE count_after_attempt_error(@)]
    /\ can_send_answer' = [can_send_answer EXCEPT ![s] = None]
    /\ UNCHANGED <<config, statistics, max_in_flight, sent, timer, vacated>>

\* network.rs 109
connections_fetch_add(s) ==
    /\ pc[s] = "fetch_add"
    /\ statistics' = fetch_add(statistics, "connections")
    /\ pc' = [pc EXCEPT ![s] = "send"]
    /\ UNCHANGED <<config, num_active_connections, can_send_answer, max_in_flight, sent,
                   timer, vacated>>

\* Mutant: the flag tells that an offer is pending.
generator_flag_inverted(csa) == csa # None

\* network.rs 134: the flag create_random_request is given
generator_flag(csa) == csa = None

\* Mutant: the teardown forgets the worker's count.
count_after_loop_exit_kept(count) == count

\* network.rs 115
count_after_loop_exit(count) == count - 1

\* what the exit of the loop of a connection of worker w, leaving the count
\* at count, records for the next tick of w
vacated_after_loop_exit(w, count) ==
    [vacated EXCEPT ![w] = @ \/ count < config.num_connections_per_worker]

\* Mutant: the request is counted before the write is known to have succeeded.
statistics_after_send_always_counted(stats, write_ok) == fetch_add(stats, "requests")

\* network.rs 159-164: `?` returns the error of stream.send before the
\* requests counter is reached
statistics_after_send(stats, write_ok) ==
    IF write_ok THEN fetch_add(stats, "requests") ELSE stats

\* network.rs 128-167, and 111-115 when the write fails.  The await of
\* stream.send (159) is inside the step: between building the request and the
\* return of the write the task touches nothing another task reads.
send_message(s, request, write_ok) ==
    LET flag == generator_flag(can_send_answer[s])
        message == outgoing_request(request, can_send_answer[s])
    IN  /\ Runnable(s[1])
        /\ pc[s] = "send"
        /\ request \in create_random_request(s, flag)
        /\ can_send_answer' =
              [can_send_answer EXCEPT ![s] = can_send_answer_after_send(request, @)]
        /\ IF write_ok
           THEN /\ pc' = [pc EXCEPT ![s] = "read"]
                /\ UNCHANGED <<num_active_connections, vacated>>
           ELSE /\ num_active_connections' =
                      [num_active_connections EXCEPT ![s[1]] = count_after_loop_exit(@)]
                /\ vacated' = vacated_after_loop_exit(s[1], num_active_connections'[s[1]])
                /\ pc' = [pc EXCEPT ![s] = "fetch_sub"]
        /\ statistics' = statistics_after_send(statistics, write_ok)
        /\ sent' = [sent EXCEPT ![s] = Some([flag |-> flag, request |-> message])]
        /\ UNCHANGED <<config, max_in_flight, timer>>

\* network.rs 169-230, and 111-115 when the read fails: the step taken when
\* the await of stream.next() returns frame
read_message(s, frame) ==
    /\ Runnable(s[1])
    /\ pc[s] = "read"
    /\ IF frame_outcome(frame) = "fatal"
       THEN /\ num_active_connections' =
                  [num_active_connections EXCEPT ![s[1]] = count_after_loop_exit(@)]
            /\ vacated' = vacated_after_loop_exit(s[1], num_active_connections'[s[1]])
            /\ pc' = [pc EXCEPT ![s] = "fetch_sub"]
            /\ UNCHANGED <<statistics, can_send_answer>>
       ELSE /\ statistics' = statistics_after_read(statistics, frame)
            /\ can_send_answer' =
                  [can_send_answer EXCEPT ![s] = can_send_answer_after_read(@, frame)]
            /\ pc' = [pc EXCEPT ![s] = "send"]
            /\ UNCHANGED <<num_active_connections, vacated>>
    /\ UNCHANGED <<config, max_in_flight, sent, timer>>

\* network.rs 116-118: the second teardown update; run returns Ok(()) and the
\* Connection is dropped
connections_fetch_sub(s) ==
    /\ pc[s] = "fetch_sub"
    /\ statistics' = fetch_sub(statistics, "connections")
    /\ pc' = [pc EXCEPT ![s] = "returned_ok"]
    /\ can_send_answer' = [can_send_answer EXCEPT ![s] = None]
    /\ UNCHANGED <<config, num_active_connections, max_in_flight, sent, timer, vacated>>

\* every candidate the generator can return
Requests == UNION {create_random_request(s, f) : s \in Sessions, f \in BOOLEAN}

\* ------------------------------------------------------------------ steps
\* the timer of some worker fires
Tick == \E w \in Workers : periodically_open_connections(w)

\* the establishment of some spawned task comes to its end
Establish == \E s \in Sessions, outcome \in Outcomes : establish_returns(s, outcome)

\* network.rs 109, for some connection
FetchAdd == \E s \in Sessions : connections_fetch_add(s)

\* a Send step of some connection; max_requests caps the writes a run makes
\* and requests are the candidates the generator is given to return
Send(max_requests, requests) ==
    \E s \in Sessions, request \in requests, write_ok \in BOOLEAN :
        /\ statistics["requests"] < max_requests
        /\ send_message(s, request, write_ok)

\* a Receive step of some connection; frames are the values stream.next() is
\* given to yield
Receive(frames) == \E s \in Sessions, frame \in frames : read_message(s, frame)

\* network.rs 116-118, for some connection
FetchSub == \E s \in Sessions : connections_fetch_sub(s)

Next ==
    \/ Tick
    \/ Establish
    \/ FetchAdd
    \/ Send(MaxRequests, Requests)
    \/ Receive(Frames)
    \/ FetchSub

\* the frames that decide whether a connection stays alive
AdmissionFrames ==
    {f \in Frames : f.kind \in {"EndOfStream", "ReadError"}
                     \/ (f.kind = "Text" /\ f.body = "announce")}

AdmissionNext ==
    \/ Tick
    \/ Establish
    \/ FetchAdd
    \/ Send(MaxAdmissionRequests, {ScrapeRequest})
    \/ Receive(AdmissionFrames)
    \/ FetchSub

Spec == Init /\ [][Next]_vars
AdmissionSpec == AdmissionInit /\ [][AdmissionNext]_vars

\* =================================================================== claims
IsAnswer(m) ==
    /\ m.type = "AnnounceRequest"
    /\ m.answer # None

C2_AnswerCarriesPendingOffer ==
    [][\A s \in Sessions, request \in Requests, write_ok \in BOOLEAN :
          (/\ send_message(s, request, write_ok)
           /\ can_send_answer[s] # None
           /\ request.type = "AnnounceRequest")
              => LET offer == can_send_answer[s][1]
                     m == sent'[s][1].request
                 IN  /\ m.type = "AnnounceRequest"
                     /\ m.info_hash = offer[1]
                     /\ m.answer_to_peer_id = Some(offer[2])
                     /\ m.answer_offer_id = Some(offer[3])
                     /\ m.answer = Some(RtcAnswer)
                     /\ m.event = None
                     /\ m.offers = None
                     /\ m.peer_id = request.peer_id
                     /\ can_send_answer'[s] = None]_vars

\* the scenario of the claim: a fresh connection sent one request, received
\* the offer (11, 1, 21) and its second request answers it
C2_Witness ==
    \E s \in Sessions :
        /\ pc[s] = "read"
        /\ statistics["requests"] = 2
        /\ statistics["responses_offer"] = 1
        /\ sent[s] # None
        /\ IsAnswer(sent[s][1].request)
        /\ sent[s][1].request.info_hash = 11
        /\ sent[s][1].request.answer_to_peer_id = Some(1)
        /\ sent[s][1].request.answer_offer_id = Some(21)
        /\ can_send_answer[s] = None

Capacity == config.num_connections_per_worker
Established(w) == TasksAt(w, {"fetch_add", "send", "read"})

\* C4: no step launches more than one Connection::run task of a worker, and
\* only a tick of that worker launches one, however far its count is below the
\* capacity.
C4_AtMostOneLaunchPerTick ==
    [][\A w \in Workers :
          /\ Launched(w)' <= Launched(w) + 1
          /\ Launched(w)' # Launched(w) => periodically_open_connections(w)]_vars

\* worker 1 is two below its capacity and its tick has launched one task
C4_Witness ==
    /\ Capacity = 2
    /\ num_active_connections[1] = 0
    /\ Launched(1) = 1
    /\ InFlight(1) = 1

\* C5, as stated: the count a tick reads never exceeds the capacity.  (A tick
\* whose count is at or above the capacity can fire in every state.)
C5_AsStated ==
    \A w \in Workers :
        ENABLED periodically_open_connections(w)
            => num_active_connections[w] <= Capacity

\* C5, amended: the count a tick reads never exceeds the capacity as long as
\* the worker never had two establishment attempts in flight at once; attempts
\* launched while another was in flight can take the count above it.
C5_CountWithinCapacityWithoutOverlap ==
    \A w \in Workers :
        (ENABLED periodically_open_connections(w) /\ max_in_flight[w] <= 1)
            => num_active_connections[w] <= Capacity

\* ticks, an establishment, a termination and a second establishment, one
\* attempt at a time: the count is at the capacity
C5_Witness ==
    /\ Capacity = 1
    /\ max_in_flight[1] = 1
    /\ pc[<<1, 1>>] = "returned_ok"
    /\ pc[<<1, 2>>] \in Live
    /\ num_active_connections[1] = 1
    /\ ENABLED periodically_open_connections(1)

\* C6: a tick launches a task exactly when the count it reads is below the
\* capacity, and then exactly one; at or above the capacity it launches none.
C6_LaunchIffBelowCapacity ==
    [][\A w \in Workers :
          (periodically_open_connections(w) \/ Launched(w)' # Launched(w))
              => /\ Launched(w)' \in {Launched(w), Launched(w) + 1}
                 /\ Launched(w)' = Launched(w) + 1
                        <=> num_active_connections[w] < Capacity]_vars

\* capacity 1: the first connection terminated and the next tick launched one
C6_Witness ==
    /\ Capacity = 1
    /\ pc[<<1, 1>>] = "returned_ok"
    /\ pc[<<1, 2>>] = "establishing"
    /\ num_active_connections[1] = 0

\* C7: the count of a worker is never negative and equals the number of its
\* connections that made their increment and not yet their decrement.  (The
\* usize is modelled as an integer, so an underflow would show as a negative
\* count.)
C7_CountIsEstablishedSessions ==
    \A w \in Workers :
        /\ num_active_connections[w] >= 0
        /\ num_active_connections[w] = Cardinality(Established(w))

\* one connection of worker 1 has terminated and another one is live
C7_Witness ==
    /\ pc[<<1, 1>>] = "returned_ok"
    /\ pc[<<1, 2>>] \in Live
    /\ num_active_connections[1] = 1

\* C8: an establishment attempt that fails at connect, at the TLS handshake or
\* at the upgrade handshake ends with every worker's count and every
\* statistics counter unchanged.
C8_FailedAttemptTouchesNoCounter ==
    [][\A s \in Sessions, outcome \in Outcomes \ {"ok"} :
          establish_returns(s, outcome)
              => /\ num_active_connections' = num_active_connections
                 /\ statistics' = statistics
                 /\ pc'[s] = "returned_err"]_vars

\* capacity 1: an attempt failed and a later tick launched a new one
C8_Witness ==
    /\ Capacity = 1
    /\ pc[<<1, 1>>] = "returned_err"
    /\ pc[<<1, 2>>] = "establishing"
    /\ num_active_connections[1] = 0
    /\ statistics["connections"] = 0

\* the response counter the claim assigns to a frame, if any
C9_CounterOf(frame) ==
    IF frame.kind \in {"Text", "Binary"}
    THEN CASE frame.body \in {"offer1", "offer2"} -> {"responses_offer"}
           [] frame.body = "answer" -> {"responses_answer"}
           [] frame.body = "announce" -> {"responses_announce"}
           [] frame.body = "scrape" -> {"responses_scrape"}
           [] frame.body = "error" -> {"responses_error"}
           [] OTHER -> {}
    ELSE {}

\* C9: a Receive step that decodes a message adds 1 to the response counter of
\* its kind and changes no other counter; a frame of another kind, a frame
\* that does not decode and a failed read change no counter.
C9_OneResponseCounterPerMessage ==
    [][\A s \in Sessions, frame \in Frames :
          read_message(s, frame)
              => \A n \in CounterNames :
                    statistics'[n] =
                        statistics[n] + (IF n \in C9_CounterOf(frame) THEN 1 ELSE 0)]_vars

\* three Receive steps counted an error response, an offer and a scrape response
C9_Witness ==
    /\ statistics["responses_error"] = 1
    /\ statistics["responses_offer"] = 1
    /\ statistics["responses_scrape"] = 1
    /\ statistics["responses_answer"] = 0
    /\ statistics["responses_announce"] = 0

\* C10: a read that returns end-of-stream or a transport error takes 1 from the
\* worker's count and ends the loop; the teardown then takes 1 from the
\* "connections" statistic and the task returns Ok.
C10_FatalReadTearsDown ==
    [][\A s \in Sessions :
          /\ \A frame \in Frames :
                (frame.kind \in {"EndOfStream", "ReadError"} /\ read_message(s, frame))
                    => /\ num_active_connections' =
                              [num_active_connections EXCEPT ![s[1]] = @ - 1]
                       /\ statistics' = statistics
                       /\ pc'[s] = "fetch_sub"
          /\ (pc[s] = "fetch_sub" /\ pc'[s] # "fetch_sub")
                    => /\ statistics' = [statistics EXCEPT !["connections"] = @ - 1]
                       /\ num_active_connections' = num_active_connections
                       /\ pc'[s] = "returned_ok"]_vars

\* the only connection that ever wrote had its write succeed and has returned
\* Ok: its loop ended in the read
C10_Witness ==
    \E s \in Sessions :
        /\ pc[s] = "returned_ok"
        /\ sent[s] # None
        /\ statistics["requests"] = 1
        /\ \A o \in Sessions \ {s} : sent[o] = None
        /\ num_active_connections[s[1]] = 0
        /\ statistics["connections"] = 0

\* C11, as stated: when a connection of a worker has ended and left the count
\* below the capacity, the next tick of that worker launches exactly one task.
C11_AsStated ==
    [][\A w \in Workers :
          (periodically_open_connections(w) /\ vacated[w])
              => Launched(w)' = Launched(w) + 1]_vars

\* C11, amended: when a connection of a worker has ended and left the count
\* below the capacity, the next tick of that worker launches exactly one task
\* if the count it reads is still below the capacity, and none otherwise; the
\* count is still below the capacity whenever the worker never had two
\* establishment attempts in flight at once.
C11_NextTickReplacesUnlessRefilled ==
    [][\A w \in Workers :
          (periodically_open_connections(w) /\ vacated[w])
              => /\ Launched(w)' =
                        Launched(w) + (IF num_active_connections[w] < Capacity THEN 1 ELSE 0)
                 /\ max_in_flight[w] <= 1 => num_active_connections[w] < Capacity]_vars

\* capacity 1, one attempt at a time: the connection ended and the tick after
\* that launched its replacement
C11_Witness ==
    /\ Capacity = 1
    /\ max_in_flight[1] = 1
    /\ pc[<<1, 1>>] = "returned_ok"
    /\ pc[<<1, 2>>] = "establishing"
    /\ ~vacated[1]
    /\ num_active_connections[1] = 0

\* C12: a connection enters its loop at Send; a Send whose write succeeded is
\* followed by a Receive and a Send whose write failed leaves the loop; a
\* Receive that got a frame is followed by a Send and a Receive that got
\* end-of-stream or a transport error leaves the loop; a connection in Send
\* moves only by a Send step and one in Receive only by a Receive step, so
\* nothing else leaves the loop and the two never overlap.
C12_SendReceiveAlternate ==
    [][\A s \in Sessions :
          /\ (pc'[s] \in Live /\ pc[s] \notin Live)
                => (pc[s] = "fetch_add" /\ pc'[s] = "send")
          /\ (pc[s] = "send" /\ pc'[s] # "send")
                => \E request \in Requests, write_ok \in BOOLEAN :
                      send_message(s, request, write_ok)
          /\ (pc[s] = "read" /\ pc'[s] # "read")
                => \E frame \in Frames : read_message(s, frame)
          /\ \A request \in Requests, write_ok \in BOOLEAN :
                send_message(s, request, write_ok)
                    => pc'[s] = IF write_ok THEN "read" ELSE "fetch_sub"
          /\ \A frame \in Frames :
                read_message(s, frame)
                    => pc'[s] = IF frame.kind \in {"EndOfStream", "ReadError"}
                                THEN "fetch_sub" ELSE "send"]_vars

\* a connection is in its third Receive: Send, Receive, Send, Receive, Send
\* have gone before
C12_Witness ==
    \E s \in Sessions :
        /\ pc[s] = "read"
        /\ statistics["requests"] = 3
        /\ statistics["responses_answer"] = 1
        /\ statistics["responses_announce"] = 1
        /\ statistics["connections"] = 1

\* C13: whatever became of the tasks a worker launched, its timer stays armed
\* with the configured interval, its next tick can fire (in the model: as long
\* as it has a task slot left to launch into or launches nothing), and
\* run_socket_thread has not returned.
C13_TimerKeepsTicking ==
    \A w \in Workers :
        /\ timer[w] = Some(config.connection_creation_interval_ms)
        /\ ~run_socket_thread_returned(w)
        /\ (/\ Runnable(w)
            /\ (num_active_connections[w] >= Capacity \/ TasksAt(w, {"unspawned"}) # {}))
              => ENABLED periodically_open_connections(w)

\* an attempt of worker 1 failed, the connection of worker 2 was torn down,
\* and the tick of either worker can fire
C13_Witness ==
    /\ pc[<<1, 1>>] = "returned_err"
    /\ pc[<<1, 2>>] = "unspawned"
    /\ pc[<<2, 1>>] = "returned_ok"
    /\ timer[1] = Some(IntervalMs)
    /\ ~run_socket_thread_returned(2)
    /\ ENABLED periodically_open_connections(1)

\* C14: the count of a worker can exceed the capacity, and it never exceeds
\* the capacity minus one plus the largest number of establishment attempts
\* the worker had in flight at the same time.
C14_OvershootBoundedByOverlap ==
    \A w \in Workers :
        num_active_connections[w] <= (Capacity - 1) + max_in_flight[w]

\* capacity 1: two attempts were in flight together and both established
C14_Witness ==
    /\ Capacity = 1
    /\ max_in_flight[1] = 2
    /\ num_active_connections[1] = 2
    /\ num_active_connections[1] > Capacity

\* C15: a Send step whose write succeeded adds 1 to the requests counter and
\* goes on to the Receive; a Send step whose write failed leaves every counter
\* as it was and leaves the loop without a Receive; no other step changes the
\* requests counter.
C15_RequestsCountSuccessfulWrites ==
    [][/\ \A s \in Sessions, request \in Requests, write_ok \in BOOLEAN :
            send_message(s, request, write_ok)
                => /\ statistics' =
                          [statistics EXCEPT !["requests"] = @ + (IF write_ok THEN 1 ELSE 0)]
                   /\ pc'[s] = IF write_ok THEN "read" ELSE "fetch_sub"
       /\ statistics'["requests"] # statistics["requests"]
            => \E s \in Sessions, request \in Requests :
                  send_message(s, request, TRUE)]_vars

\* two writes succeeded and were counted, the third failed and was not
C15_Witness ==
    \E s \in Sessions :
        /\ pc[s] = "fetch_sub"
        /\ statistics["requests"] = 2
        /\ statistics["responses_scrape"] = 2
        /\ sent[s] # None
        /\ sent[s][1].request = ScrapeRequest

\* the frames of the claim: neither text nor binary, not decodable, or an
\* error response
C16_Frames ==
    {f \in Frames : \/ f.kind \in {"Ping", "Close"}
                     \/ (f.kind \in {"Text", "Binary"} /\ f.body \in {"garbage", "error"})}

\* C16: a Receive step that gets a frame that is neither text nor binary, a
\* frame that does not decode or an error response leaves the connection in
\* its loop with a Send as its next step, and leaves every worker's count,
\* the connections statistic and the pending offer of the connection as they
\* were.
C16_NonFatalReceiveKeepsSession ==
    [][\A s \in Sessions, frame \in C16_Frames :
          read_message(s, frame)
              => /\ pc'[s] = "send"
                 /\ num_active_connections' = num_active_connections
                 /\ statistics'["connections"] = statistics["connections"]
                 /\ can_send_answer'[s] = can_send_answer[s]]_vars

\* an offer was pending through a scrape Send and through the Receive of an
\* error response after it; the connection is about to send again
C16_Witness ==
    \E s \in Sessions :
        /\ pc[s] = "send"
        /\ statistics["requests"] = 2
        /\ statistics["responses_offer"] = 1
        /\ statistics["responses_error"] = 1
        /\ sent[s] # None
        /\ ~sent[s][1].flag
        /\ can_send_answer[s] = Some(<<11, 1, 21>>)
        /\ num_active_connections[s[1]] = 1
        /\ statistics["connections"] = 1

\* the triple of the offer a frame decodes to, if it decodes to one
C17_OfferOf(frame) ==
    IF frame.kind \in {"Text", "Binary"} /\ frame.body \in {"offer1", "offer2"}
    THEN Some(IF frame.body = "offer1" THEN <<11, 1, 21>> ELSE <<12, 2, 22>>)
    ELSE None

\* C17: the pending offer of a connection is empty or one triple; it is empty
\* when the connection is established; a received offer sets it to the
\* triple of that offer, whatever it held; a Receive of anything else leaves
\* it as it was.
C17_PendingOfferIsLatestOffer ==
    [][\A s \in Sessions :
          /\ Len(can_send_answer[s]) <= 1 /\ Len(can_send_answer'[s]) <= 1
          /\ establish_returns(s, "ok") => can_send_answer'[s] = None
          /\ \A frame \in Frames :
                read_message(s, frame)
                    => can_send_answer'[s] =
                          IF C17_OfferOf(frame) # None
                          THEN Some(C17_OfferOf(frame)[1])
                          ELSE can_send_answer[s]]_vars

\* a second offer arrived while an offer was pending (the Send between the
\* two went out with one pending and kept it) and took its place
C17_Witness ==
    \E s \in Sessions :
        /\ pc[s] = "send"
        /\ statistics["requests"] = 2
        /\ statistics["responses_offer"] = 2
        /\ sent[s] # None
        /\ ~sent[s][1].flag
        /\ sent[s][1].request = ScrapeRequest
        /\ can_send_answer[s] = Some(<<12, 2, 22>>)

\* C18: the flag a Send step gives the generator is TRUE exactly when the
\* pending offer is empty as the step starts; a connection enters its loop
\* with the pending offer empty, and its first Send gives the generator TRUE
\* and hands the candidate to the transport as generated.
C18_FlagIsPendingOfferAbsent ==
    [][\A s \in Sessions :
          /\ (pc[s] = "fetch_add" /\ pc'[s] = "send") => can_send_answer'[s] = None
          /\ \A request \in Requests, write_ok \in BOOLEAN :
                send_message(s, request, write_ok)
                    => /\ sent'[s][1].flag = (can_send_answer[s] = None)
                       /\ sent[s] = None
                            => /\ sent'[s][1].flag
                               /\ sent'[s][1].request = request]_vars

\* the first Send of a connection: nothing was received yet, the flag was
\* TRUE and a candidate went out as generated
C18_Witness ==
    \E s \in Sessions :
        /\ pc[s] = "read"
        /\ statistics["requests"] = 1
        /\ \A n \in CounterNames \ {"requests", "connections"} : statistics[n] = 0
        /\ sent[s] # None
        /\ sent[s][1].flag
        /\ sent[s][1].request \in create_random_request(s, TRUE)

RECURSIVE C19_Sum(_, _)
C19_Sum(f, S) ==
    IF S = {} THEN 0
    ELSE LET x == CHOOSE y \in S : TRUE IN f[x] + C19_Sum(f, S \ {x})

\* C19: whenever no connection is between its two counter updates, the
\* connections statistic equals the sum of the counts of all workers.
C19_ConnectionsIsSumOfCounts ==
    (\A s \in Sessions : pc[s] \notin MidUpdate)
        => statistics["connections"] = C19_Sum(num_active_connections, Workers)

\* both workers have a live connection, worker 1 had one torn down before,
\* and no connection is between its two updates
C19_Witness ==
    /\ \A s \in Sessions : pc[s] \notin MidUpdate
    /\ pc[<<1, 1>>] = "returned_ok"
    /\ pc[<<1, 2>>] \in Live
    /\ pc[<<2, 1>>] \in Live
    /\ num_active_connections[1] = 1
    /\ num_active_connections[2] = 1
    /\ statistics["connections"] = 2

====
